---------------------------- MODULE Spec2Model ----------------------------
(***************************************************************************)
(* Playful Data Lab: the AuthPanel view model                              *)
(* (src/src/components/AuthPanel.jsx, src/database.js syncHelpers), the    *)
(* note and image helpers of src/database.js over the local tables, the    *)
(* AI generator of App (src/unnamed/part_002), and the new-note form, the  *)
(* DetailEditor and the TagEditor of src/src/app.jsx.                      *)
(*                                                                         *)
(* The view holds six pieces of React state.  An effect with dependency    *)
(* [message] reads the Dexie Cloud client (db.cloud) and derives           *)
(* currentUser and syncStatus from it; three asynchronous command          *)
(* handlers issue login, logout and sync calls on the client.              *)
(*                                                                         *)
(* One action is one run-to-completion step of the JavaScript event loop:  *)
(* the synchronous part of a handler up to its await, the continuation of  *)
(* a handler after its awaited call settled, one run of the effect, one UI *)
(* event, or one change of the client's state made by the client itself.   *)
(***************************************************************************)
EXTENDS Integers, Sequences, FiniteSets, TLC

VARIABLES
    email,          \* useState('')      the e-mail input, a sequence of characters
    isLoading,      \* useState(false)   the busy flag
    message,        \* useState('')      the user-facing message
    showAuthForm,   \* useState(false)   whether the sign-in form is open
    currentUser,    \* useState({ isLoggedIn: false })
    syncStatus,     \* useState({ isOnline: false, isSyncing: false, phase: 'unknown' })
    cloud,          \* db.cloud: the fields of the sync client the view reads
    inflight,       \* external calls issued and not yet settled, per command
    effectPending,  \* a render changed `message`: the effect is scheduled
    authCheckError, \* which read raised in the latest run of the effect
    unhandled,      \* an exception left a handler or the effect uncaught
    notes,          \* db.notes: the local table of notes, a set of records
    images,         \* db.images: the local table of images
    publicNotes,    \* the notes posted to the public realm over the REST API
    returned,       \* what the latest query helper returned
    queryLog,       \* what the latest query helper did on its way
    prompt,         \* useState("") of GeneratorForm: the prompt textarea
    aiBusy,         \* useState(false) of App
    aiPreview,      \* useState("") of App: the streaming preview, a sequence of tokens
    finalResponse,  \* the local finalResponse of the running generateFromPrompt
    genPc,          \* where the running generateFromPrompt is suspended
    itemsLeft,      \* the items of the parsed response not yet added
    chunks,         \* the chunks the stream has yielded in this run
    genThrown,      \* an exception left generateFromPrompt
    newNote,        \* useState({ title: "", ... }) of App: the new-note form
    tagInput,       \* useState("") of App: the tag input of the form
    saves,          \* the calls of addNote that saveNewNote awaits, by their argument
    saveThrown,     \* an exception left saveNewNote
    selectedId,     \* useState("") of App: the id of the selected card
    doc,            \* useState(null) of DetailEditor
    loading,        \* useState(true) of DetailEditor
    val,            \* useState("") of TagEditor
    loads,          \* the calls of getNote the editor awaits, by their id
    pending,        \* the calls of updateNote and deleteNote the editor awaits
    editorThrown,   \* an exception left a handler of the editor
    last            \* the step taken most recently

viewVars == <<email, isLoading, message, showAuthForm, currentUser, syncStatus>>

\* the state of the AuthPanel component
panelVars == <<viewVars, inflight, effectPending, authCheckError, unhandled>>

\* the tables and what was read from them
dataVars == <<notes, images, publicNotes, returned, queryLog>>

\* the AI generator of App and GeneratorForm
genVars == <<prompt, aiBusy, aiPreview, finalResponse, genPc, itemsLeft, chunks, genThrown>>

\* the new-note form of App
formVars == <<newNote, tagInput, saves, saveThrown>>

\* the selection of App and the DetailEditor with its TagEditor
editorVars == <<selectedId, doc, loading, val, loads, pending, editorThrown>>

\* the state outside AuthPanel
appVars == <<dataVars, genVars, formVars, editorVars>>

vars == <<email, isLoading, message, showAuthForm, currentUser, syncStatus,
          cloud, inflight, effectPending, authCheckError, unhandled,
          notes, images, publicNotes, returned, queryLog,
          prompt, aiBusy, aiPreview, finalResponse, genPc, itemsLeft, chunks,
          genThrown, newNote, tagInput, saves, saveThrown,
          selectedId, doc, loading, val, loads, pending, editorThrown, last>>

-----------------------------------------------------------------------------
(* Bounds of the model. *)

\* longest e-mail typed into the input, in characters
MaxEmailLen == 1

\* most external calls in flight at once
MaxInflight == 2

\* most calls of addNote that saveNewNote awaits at once
MaxSaves == 1

\* most cards that the new-note form stores
MaxCards == 1

\* most calls of getNote that the editor awaits at once
MaxLoads == 2

\* most calls of updateNote and deleteNote that the editor awaits at once
MaxUpdates == 1

-----------------------------------------------------------------------------
(* Values. *)

\* JavaScript's undefined, where a string is expected
NoValue == "<undefined>"

\* the characters of an e-mail: one that String.prototype.trim removes, one it keeps
Chars == {" ", "a"}

RECURSIVE SeqsUpTo(_)
SeqsUpTo(n) ==
    IF n = 0 THEN {<<>>}
    ELSE LET shorter == SeqsUpTo(n - 1)
         IN  shorter \cup {Append(s, c) : s \in {t \in shorter : Len(t) = n - 1}, c \in Chars}

Emails == SeqsUpTo(MaxEmailLen)

Commands == {"signIn", "signOut", "forceSync"}

\* error.message of a rejected external call
ErrorDescriptions == {"network down"}


-----------------------------------------------------------------------------
(* The sync client, db.cloud, as far as the view reads it. *)

\* db.cloud.currentUserId: undefined, empty, the sentinel, or a real user id
UserIds == {NoValue, "", "unauthorized", "u1"}

\* db.cloud.currentUser?.email
UserEmails == {NoValue, "a@b.com"}

\* the phase strings a sync state object may carry
ClientPhases == {"online", "syncing", "unknown", "error", "offline"}

\* a sync state object that is undefined
Absent == [present |-> FALSE, phase |-> NoValue, lastSync |-> NoValue]

\* the literal {} of `db.cloud.syncState || db.cloud.persistedSyncState || {}`
EmptyObject == [present |-> TRUE, phase |-> NoValue, lastSync |-> NoValue]

\* the values of a sync state object whose lastSync is ls: undefined, or an
\* object with or without a phase
SyncObjects(ls) ==
    {Absent} \cup
    {[present |-> TRUE, phase |-> p, lastSync |-> ls] : p \in ClientPhases \cup {NoValue}}

\* the property reads of db.cloud that may raise
Getters == {"currentUserId", "syncState", "persistedSyncState"}

\* every state of the client; the live and the persisted object carry
\* different timestamps, so that the object a value was taken from shows
ClientStates ==
    [currentUserId      : UserIds,
     currentUserEmail   : UserEmails,
     syncState          : SyncObjects("t1"),
     persistedSyncState : SyncObjects("t2"),
     throwing           : Getters \cup {"none"}]

\* the client states the command specification moves between: signed out or
\* signed in, any live state, no persisted state, any read raising or none
CommandClientStates ==
    {c \in ClientStates :
        /\ c.currentUserId \in {"unauthorized", "u1"}
        /\ c.currentUserEmail = NoValue
        /\ ~c.persistedSyncState.present}

\* reading db.cloud.<getter> raises
Raises(c, getter) == c.throwing = getter

\* JavaScript truthiness of an optional string
Truthy(v) == v # NoValue /\ v # ""

-----------------------------------------------------------------------------
(* syncHelpers of database.js. *)

\* isAuthenticated(): !!userId && userId !== 'unauthorized'
isAuthenticated(c) == Truthy(c.currentUserId) /\ c.currentUserId # "unauthorized"

\* isAuthenticated() and getCurrentUser() read db.cloud.currentUserId first,
\* with no try around it
getCurrentUserRaises(c) == Raises(c, "currentUserId")

\* variant: any truthy id counts as logged in
getCurrentUserNoSentinel(c) ==
    [id         |-> c.currentUserId,
     email      |-> c.currentUserEmail,
     isLoggedIn |-> Truthy(c.currentUserId)]

\* getCurrentUser(), when its reads do not raise
getCurrentUser(c) ==
    [id         |-> c.currentUserId,
     email      |-> c.currentUserEmail,
     isLoggedIn |-> Truthy(c.currentUserId) /\ c.currentUserId # "unauthorized"]

\* variant: getSyncStatus reading the live state
getSyncStatusLive(c) ==
    [isOnline  |-> c.syncState.phase = "online",
     isSyncing |-> c.syncState.phase = "syncing",
     lastSync  |-> c.syncState.lastSync]

\* getSyncStatus(): reads the persisted state only
getSyncStatus(c) ==
    [isOnline  |-> c.persistedSyncState.phase = "online",
     isSyncing |-> c.persistedSyncState.phase = "syncing",
     lastSync  |-> c.persistedSyncState.lastSync]

-----------------------------------------------------------------------------
(* The effect of AuthPanel: the reconciliation pass. *)

\* useState({ isLoggedIn: false })
InitialUser == [isLoggedIn |-> FALSE]

\* variant: the view starts out online
InitialSyncStatusOnline == [isOnline |-> TRUE, isSyncing |-> FALSE, phase |-> "unknown"]

\* useState({ isOnline: false, isSyncing: false, phase: 'unknown' })
InitialSyncStatus == [isOnline |-> FALSE, isSyncing |-> FALSE, phase |-> "unknown"]

\* setCurrentUser({ isLoggedIn: false }) of the catch clause
ErrorUser == [isLoggedIn |-> FALSE]

\* variant: the fallback keeps the initial phase
ErrorSyncStatusNoPhase == [isOnline |-> FALSE, isSyncing |-> FALSE, phase |-> "unknown"]
\* setSyncStatus({ isOnline: false, isSyncing: false, phase: 'error' }) of the catch clause
ErrorSyncStatus == [isOnline |-> FALSE, isSyncing |-> FALSE, phase |-> "error"]

\* user.isLoggedIn && user.id !== 'unauthorized'
isReallyLoggedIn(user) == user.isLoggedIn /\ user.id # "unauthorized"

\* the reads of `db.cloud.syncState || db.cloud.persistedSyncState || {}`:
\* the persisted state is read only when the live one is falsy
cloudStateRaises(c) ==
    \/ Raises(c, "syncState")
    \/ ~c.syncState.present /\ Raises(c, "persistedSyncState")

\* variant: the persisted state takes precedence
cloudStateOfPersistedFirst(c) ==
    IF c.persistedSyncState.present THEN c.persistedSyncState
    ELSE IF c.syncState.present THEN c.syncState
    ELSE EmptyObject
\* db.cloud.syncState || db.cloud.persistedSyncState || {}
cloudStateOf(c) ==
    IF c.syncState.present THEN c.syncState
    ELSE IF c.persistedSyncState.present THEN c.persistedSyncState
    ELSE EmptyObject

\* cloudState.phase || 'unknown'
phaseOf(cloudState) == IF Truthy(cloudState.phase) THEN cloudState.phase ELSE "unknown"

\* variant: a logged-in session counts as online whatever the phase
isOnlineOfLoggedIn(phase, loggedIn) == phase = "online" \/ loggedIn

\* variant: without the logged-in heuristic
isOnlineOfStrict(phase, loggedIn) == phase = "online"

\* phase === 'online' || (isReallyLoggedIn && phase === 'unknown')
isOnlineOf(phase, loggedIn) == phase = "online" \/ (loggedIn /\ phase = "unknown")

\* phase === 'syncing'
isSyncingOf(phase) == phase = "syncing"

\* the object passed to setSyncStatus in the try block
ReconciledSyncStatus(cloudState, loggedIn) ==
    [isOnline   |-> isOnlineOf(phaseOf(cloudState), loggedIn),
     isSyncing  |-> isSyncingOf(phaseOf(cloudState)),
     lastSync   |-> cloudState.lastSync,
     phase      |-> phaseOf(cloudState),
     isLoggedIn |-> loggedIn]

\* the object passed to setCurrentUser in the try block: { ...user, isLoggedIn }
ReconciledUser(user) == [user EXCEPT !.isLoggedIn = isReallyLoggedIn(user)]

\* One run of the effect body against client state c: the state it leaves,
\* the read that raised, and whether the exception left the effect.  Both
\* setters run in one batch, so of two calls of a setter the later one wins.
AuthCheck(c) ==
    IF getCurrentUserRaises(c)
    THEN [user |-> ErrorUser, status |-> ErrorSyncStatus,
          error |-> "identity", escaped |-> FALSE]
    ELSE IF cloudStateRaises(c)
    THEN [user |-> ErrorUser, status |-> ErrorSyncStatus,
          error |-> "sync", escaped |-> FALSE]
    ELSE [user    |-> ReconciledUser(getCurrentUser(c)),
          status  |-> ReconciledSyncStatus(cloudStateOf(c),
                                           isReallyLoggedIn(getCurrentUser(c))),
          error   |-> "none", escaped |-> FALSE]

\* variant: a pass that also closes the sign-in form
ReconcileClosesForm ==
    /\ effectPending
    /\ currentUser' = AuthCheck(cloud).user
    /\ syncStatus' = AuthCheck(cloud).status
    /\ authCheckError' = AuthCheck(cloud).error
    /\ unhandled' = (unhandled \/ AuthCheck(cloud).escaped)
    /\ effectPending' = FALSE
    /\ last' = "reconcile"
    /\ showAuthForm' = FALSE
    /\ UNCHANGED <<email, isLoading, message, cloud, inflight, appVars>>

\* useEffect(() => { ... }, [message]): runs after the mount and after every
\* render in which `message` differs from the render before
Reconcile ==
    /\ effectPending
    /\ currentUser' = AuthCheck(cloud).user
    /\ syncStatus' = AuthCheck(cloud).status
    /\ authCheckError' = AuthCheck(cloud).error
    /\ unhandled' = (unhandled \/ AuthCheck(cloud).escaped)
    /\ effectPending' = FALSE
    /\ last' = "reconcile"
    /\ UNCHANGED <<email, isLoading, message, showAuthForm, cloud, inflight, appVars>>

\* the client states that differ from c in one field
OneFieldChanged(c) ==
    {[c EXCEPT !.currentUserId = v] : v \in UserIds}
    \cup {[c EXCEPT !.currentUserEmail = v] : v \in UserEmails}
    \cup {[c EXCEPT !.syncState = v] : v \in SyncObjects("t1")}
    \cup {[c EXCEPT !.persistedSyncState = v] : v \in SyncObjects("t2")}
    \cup {[c EXCEPT !.throwing = v] : v \in Getters \cup {"none"}}

\* the client changes one of its fields, at any time, staying within S
ClientChange(S) ==
    /\ \E c \in (OneFieldChanged(cloud) \cap S) \ {cloud} : cloud' = c
    /\ last' = "clientChange"
    /\ UNCHANGED <<viewVars, inflight, effectPending, authCheckError, unhandled, appVars>>

\* no query helper has run yet
NoQuery == [syncCalls |-> 0, syncOutcome |-> "none", readFailed |-> FALSE, threw |-> FALSE]

\* the tables of a fresh browser profile, nothing read yet
InitData ==
    /\ notes = {}
    /\ images = {}
    /\ publicNotes = {}
    /\ returned = <<>>
    /\ queryLog = NoQuery

\* the generator after the first render of App
InitGen ==
    /\ prompt = <<>>
    /\ aiBusy = FALSE
    /\ aiPreview = <<>>
    /\ finalResponse = <<>>
    /\ genPc = "idle"
    /\ itemsLeft = 0
    /\ chunks = 0
    /\ genThrown = FALSE

\* the defaults of the new-note form; files stands for _files, by its names
DefaultNote ==
    [title |-> <<>>, details |-> <<>>, tags |-> <<>>, priority |-> "medium", files |-> {}]

\* the new-note form after the first render of App
InitForm ==
    /\ newNote = DefaultNote
    /\ tagInput = <<>>
    /\ saves = <<>>
    /\ saveThrown = FALSE

\* selectedId === "": no card is selected
NoSelection == 0

\* doc === null, and the undefined that db.notes.get gives for a missing id
NoDoc == [found |-> FALSE]

\* no card selected: the DetailEditor is not mounted; doc, loading and val
\* hold the values a mount starts from
InitEditor ==
    /\ selectedId = NoSelection
    /\ doc = NoDoc
    /\ loading = TRUE
    /\ val = <<>>
    /\ loads = <<>>
    /\ pending = <<>>
    /\ editorThrown = FALSE

\* the state outside AuthPanel when the application starts
InitApp == InitData /\ InitGen /\ InitForm /\ InitEditor

\* the state after AuthPanel's first render, before its effect has run
InitView ==
    /\ email = <<>>
    /\ isLoading = FALSE
    /\ message = ""
    /\ showAuthForm = FALSE
    /\ currentUser = InitialUser
    /\ syncStatus = InitialSyncStatus
    /\ inflight = [c \in Commands |-> 0]
    /\ effectPending = TRUE
    /\ authCheckError = "none"
    /\ unhandled = FALSE
    /\ last = "mount"

-----------------------------------------------------------------------------
(* The reconciliation pass on its own, over every state of the client. *)

InitRecon == InitView /\ InitApp /\ cloud \in ClientStates

NextRecon ==
    \/ Reconcile
    \/ ClientChange(ClientStates)

SpecRecon == InitRecon /\ [][NextRecon]_vars

-----------------------------------------------------------------------------
(* The command handlers of AuthPanel. *)

IsSpace(ch) == ch = " "

RECURSIVE trimStart(_)
trimStart(s) == IF s # <<>> /\ IsSpace(Head(s)) THEN trimStart(Tail(s)) ELSE s

RECURSIVE trimEnd(_)
trimEnd(s) ==
    IF s # <<>> /\ IsSpace(s[Len(s)]) THEN trimEnd(SubSeq(s, 1, Len(s) - 1)) ELSE s

\* String.prototype.trim
trim(s) == trimEnd(trimStart(s))

\* variant: the guard without trim
signInReturnsEarlyUntrimmed(e) == e = <<>>

\* if (!email.trim()) return
signInReturnsEarly(e) == trim(e) = <<>>

\* the number of external calls in flight
InFlight == inflight["signIn"] + inflight["signOut"] + inflight["forceSync"]

\* the message after the synchronous part of a handler: handleSignIn calls
\* setMessage(''), handleSignOut and handleForceSync do not touch the message
messageAtStart(cmd, msg) == IF cmd = "signIn" THEN "" ELSE msg

\* variant: the messages of signOut and forceSync exchanged
successMessageSwapped(cmd) ==
    CASE cmd = "signIn"    -> "Check your email for the login link!"
      [] cmd = "signOut"   -> "Sync triggered"
      [] cmd = "forceSync" -> "Signed out successfully"
\* the setMessage of each try block
successMessage(cmd) ==
    CASE cmd = "signIn"    -> "Check your email for the login link!"
      [] cmd = "signOut"   -> "Signed out successfully"
      [] cmd = "forceSync" -> "Sync triggered"

\* the setMessage of each catch clause: `<Action> failed: ${error.message}`
failureMessage(cmd, description) ==
    CASE cmd = "signIn"    -> "Sign in failed: " \o description
      [] cmd = "signOut"   -> "Sign out failed: " \o description
      [] cmd = "forceSync" -> "Sync failed: " \o description

\* variant: the wrappers throw an error of their own
rethrownReplaced(cmd, description) ==
    IF cmd \in {"signIn", "signOut"} THEN "request failed" ELSE description

\* syncHelpers.signIn and syncHelpers.signOut: catch (error) { console.error(...);
\* throw error }, the same error object; db.cloud.sync is awaited directly
rethrown(cmd, description) == description

\* variant: the catch clause issues the call once more
inflightAfterRetry(cmd, outcome, calls) ==
    IF outcome = "rejected" THEN calls ELSE [calls EXCEPT ![cmd] = @ - 1]

\* the calls in flight after a continuation: the settled call is gone, and
\* neither the try block's remainder nor the catch clause issues another
inflightAfter(cmd, outcome, calls) == [calls EXCEPT ![cmd] = @ - 1]

\* whether the continuation throws out of the handler: each catch clause
\* only calls setMessage
handlerThrows(cmd, outcome) == FALSE

\* setEmail('') in the try block of handleSignIn, after the awaited call
emailAfter(cmd, outcome, e) ==
    IF cmd = "signIn" /\ outcome = "resolved" THEN <<>> ELSE e

\* variant: the flag cleared in the try block instead of a finally clause
isLoadingAfterNoFinally(outcome, busy) == IF outcome = "resolved" THEN FALSE ELSE busy

\* variant: the flag left as the continuation found it
isLoadingAfterKept(outcome, busy) == busy

\* setIsLoading(false) in the finally clause of each handler
isLoadingAfter(outcome, busy) == FALSE

\* The synchronous part of a handler, up to its await: the busy flag, the
\* message, and the external call (db.cloud.login through syncHelpers.signIn,
\* db.cloud.logout through syncHelpers.signOut, db.cloud.sync).  The setters
\* of one event are applied in one render.
Issue(cmd) ==
    /\ InFlight < MaxInflight
    /\ isLoading' = TRUE
    /\ message' = messageAtStart(cmd, message)
    /\ inflight' = [inflight EXCEPT ![cmd] = @ + 1]
    /\ effectPending' = (message' # message)
    /\ UNCHANGED <<email, showAuthForm, currentUser, syncStatus>>

\* handleSignIn(e)
handleSignIn ==
    /\ IF signInReturnsEarly(email)
       THEN UNCHANGED <<viewVars, inflight, effectPending>>
       ELSE Issue("signIn")
    /\ last' = "handleSignIn"
    /\ UNCHANGED <<cloud, authCheckError, unhandled, appVars>>

\* handleSignOut()
handleSignOut ==
    /\ Issue("signOut")
    /\ last' = "handleSignOut"
    /\ UNCHANGED <<cloud, authCheckError, unhandled, appVars>>

\* handleForceSync()
handleForceSync ==
    /\ Issue("forceSync")
    /\ last' = "handleForceSync"
    /\ UNCHANGED <<cloud, authCheckError, unhandled, appVars>>

\* The continuation of a handler once its awaited call has settled: the try
\* block's remainder or the catch clause, then the finally clause.  The
\* wrappers syncHelpers.signIn and signOut rethrow what they catch.  React
\* runs a scheduled effect before it renders a later update.
Settle(cmd, outcome, description) ==
    /\ ~effectPending
    /\ inflight[cmd] > 0
    /\ inflight' = inflightAfter(cmd, outcome, inflight)
    /\ message' = IF outcome = "resolved" THEN successMessage(cmd)
                  ELSE failureMessage(cmd, rethrown(cmd, description))
    /\ email' = emailAfter(cmd, outcome, email)
    /\ isLoading' = isLoadingAfter(outcome, isLoading)
    /\ effectPending' = (message' # message)
    /\ last' = cmd \o "." \o outcome
    /\ unhandled' = (unhandled \/ handlerThrows(cmd, outcome))
    /\ UNCHANGED <<showAuthForm, currentUser, syncStatus, cloud, authCheckError, appVars>>

Resolve(cmd) == Settle(cmd, "resolved", NoValue)

Reject(cmd) == \E d \in ErrorDescriptions : Settle(cmd, "rejected", d)

-----------------------------------------------------------------------------
(* The rendered controls. *)

\* if (!currentUser?.isLoggedIn) return <the signed-out card>
LoggedOutView == ~currentUser.isLoggedIn

\* variant: the command buttons rendered in both cards
LoggedInViewAlways == TRUE

\* otherwise the connected card, with the sync and sign-out buttons
LoggedInView == currentUser.isLoggedIn

\* variant: the controls stay enabled while busy
disabledNever(busy) == FALSE

\* disabled={isLoading} of the input, the submit, sync and sign-out buttons
disabled(busy) == busy

\* onClick={() => setShowAuthForm(!showAuthForm)}: never disabled
ToggleAuthForm ==
    /\ ~effectPending
    /\ LoggedOutView
    /\ showAuthForm' = ~showAuthForm
    /\ last' = "toggleAuthForm"
    /\ UNCHANGED <<email, isLoading, message, currentUser, syncStatus,
                   cloud, inflight, effectPending, authCheckError, unhandled, appVars>>

\* onChange={(e) => setEmail(e.target.value)} of the input, disabled={isLoading}
ChangeEmail ==
    /\ ~effectPending
    /\ LoggedOutView /\ showAuthForm /\ ~disabled(isLoading)
    /\ \E e \in Emails \ {email} : email' = e
    /\ last' = "changeEmail"
    /\ UNCHANGED <<isLoading, message, showAuthForm, currentUser, syncStatus,
                   cloud, inflight, effectPending, authCheckError, unhandled, appVars>>

\* onSubmit={handleSignIn} of the form, whose controls are disabled={isLoading};
\* a submit event that does not come from the button (which is also disabled
\* while the trimmed e-mail is empty) reaches the handler with any e-mail
SubmitForm ==
    /\ ~effectPending
    /\ LoggedOutView /\ showAuthForm /\ ~disabled(isLoading)
    /\ handleSignIn

\* onClick={handleForceSync} of the sync button, disabled={isLoading}
ClickSync ==
    /\ ~effectPending
    /\ LoggedInView /\ ~disabled(isLoading)
    /\ handleForceSync

\* onClick={handleSignOut} of the sign-out button, disabled={isLoading}
ClickSignOut ==
    /\ ~effectPending
    /\ LoggedInView /\ ~disabled(isLoading)
    /\ handleSignOut

Init == InitView /\ InitApp /\ cloud \in CommandClientStates

SettleSome ==
    \/ Resolve("signIn")
    \/ Reject("signIn")
    \/ Resolve("signOut")
    \/ Reject("signOut")
    \/ Resolve("forceSync")
    \/ Reject("forceSync")

Next ==
    \/ Reconcile
    \/ ClientChange(CommandClientStates)
    \/ ToggleAuthForm
    \/ ChangeEmail
    \/ SubmitForm
    \/ ClickSync
    \/ ClickSignOut
    \/ SettleSome

\* the view driven through its rendered controls
Spec == Init /\ [][Next]_vars

\* every external call issued settles
FairSpec == Spec /\ WF_vars(SettleSome) /\ WF_vars(Reconcile)

-----------------------------------------------------------------------------
(* The handlers invoked past the rendered controls. *)

\* the client states of the sessions in which the handlers are invoked
\* directly: signed out or signed in, no sync state, no read raising
BypassClientStates ==
    {c \in CommandClientStates : ~c.syncState.present /\ c.throwing = "none"}

\* handleSignIn called whatever the controls show: a submit event
\* dispatched on the form, or a second click delivered before the render
InvokeSignIn == ~effectPending /\ handleSignIn

\* handleSignOut called whatever the controls show
InvokeSignOut == ~effectPending /\ handleSignOut

\* handleForceSync called whatever the controls show
InvokeForceSync == ~effectPending /\ handleForceSync

InitBypass == InitView /\ InitApp /\ cloud \in BypassClientStates

NextBypass ==
    \/ Reconcile
    \/ ClientChange(BypassClientStates)
    \/ ToggleAuthForm
    \/ ChangeEmail
    \/ InvokeSignIn
    \/ InvokeSignOut
    \/ InvokeForceSync
    \/ SettleSome

\* the view with its handlers invoked at any time
SpecBypass == InitBypass /\ [][NextBypass]_vars

-----------------------------------------------------------------------------
(* Rendering the connected card. *)

\* the DEBUG INFO block evaluates db.cloud.currentUserId and
\* db.cloud.syncState?.phase in the render itself, outside any try; the
\* optional chaining covers an undefined syncState, not a getter that raises
renderRaises(c) == Raises(c, "currentUserId") \/ Raises(c, "syncState")

\* a render of the connected card: React renders AuthPanel after each of its
\* state updates and whenever App renders; AuthPanel has no error boundary,
\* so an exception raised by the render unmounts the tree
RenderLoggedIn ==
    /\ ~effectPending
    /\ LoggedInView
    /\ unhandled' = renderRaises(cloud)
    /\ last' = "render"
    /\ UNCHANGED <<viewVars, cloud, inflight, effectPending, authCheckError, appVars>>

\* the mounted view: nothing runs once an exception has unmounted it
Mounted == ~unhandled /\ Next

NextRender ==
    \/ Mounted
    \/ ~unhandled /\ RenderLoggedIn

\* the view with the renders of its connected card
SpecRender == Init /\ [][NextRender]_vars

-----------------------------------------------------------------------------
(* The status badge and the status text of the connected card. *)

\* a status prop that is null or undefined
NullStatus == [null |-> TRUE]

\* function SyncStatusIndicator({ status }): the Badge it returns, by its
\* label (without the emoji), its colour and whether it pulses
SyncStatusIndicator(status) ==
    IF status = NullStatus
    THEN [label |-> "UNKNOWN", colour |-> "secondary", pulsing |-> FALSE]
    ELSE IF status.isSyncing
    THEN [label |-> "SYNCING", colour |-> "yellow", pulsing |-> TRUE]
    ELSE IF status.isOnline
    THEN [label |-> "ONLINE", colour |-> "green", pulsing |-> FALSE]
    ELSE [label |-> "OFFLINE", colour |-> "destructive", pulsing |-> FALSE]

\* variant: the text does not look at isSyncing
getSyncStatusTextNoSyncing(status) ==
    IF status = NullStatus THEN "UNKNOWN"
    ELSE IF status.isOnline THEN "ONLINE & READY"
    ELSE "OFFLINE (" \o (IF Truthy(status.phase) THEN status.phase ELSE "no-phase") \o ")"

\* function getSyncStatusText(status), without the emoji
getSyncStatusText(status) ==
    IF status = NullStatus THEN "UNKNOWN"
    ELSE IF status.isSyncing THEN "SYNCING DATA..."
    ELSE IF status.isOnline THEN "ONLINE & READY"
    ELSE "OFFLINE (" \o (IF Truthy(status.phase) THEN status.phase ELSE "no-phase") \o ")"

-----------------------------------------------------------------------------
(* noteHelpers and imageHelpers of database.js over the local tables. *)

\* most records in the notes table
MaxNotes == 2

\* most records in the images table
MaxImages == 1

\* the user id for which addNote takes the REST path
DatabaseOwner == "marcus.e@gmail.com"

\* the user ids of the sessions that read and write the tables
DataUserIds == {NoValue, "unauthorized", "u1", DatabaseOwner}

\* the owner field of the records found in a table at start
Owners == {"u1", "anonymous"}

\* the type field of the records found in a table at start
RecordTypes == {"note", "image"}

\* the contents of the new-note form and of a generated item: texts are
\* sequences of characters, "A" the one upper-case letter; a note with a
\* title only, one with details only, one with a tag only
NoteData ==
    {[title |-> <<"A">>, details |-> <<>>, tags |-> <<>>],
     [title |-> <<>>, details |-> <<"a">>, tags |-> <<>>],
     [title |-> <<>>, details |-> <<>>, tags |-> << <<"b">> >>]}

SearchTerms == {<<>>, <<"A">>, <<"b">>}

\* the notes that may carry the creation time t
NoteRecordsAt(t) ==
    {[createdAt |-> t, type |-> ty, title |-> d.title, details |-> d.details,
      tags |-> d.tags, owner |-> o] : ty \in RecordTypes, d \in NoteData, o \in Owners}

ImageRecordsAt(t) == [createdAt : {t}, type : {"image"}, owner : Owners]

\* the notes tables with at most one record for each creation time up to n
RECURSIVE NoteTablesUpTo(_)
NoteTablesUpTo(n) ==
    IF n = 0 THEN {{}}
    ELSE LET smaller == NoteTablesUpTo(n - 1)
         IN  smaller \cup {t \cup {r} : t \in smaller, r \in NoteRecordsAt(n)}

\* the images tables with at most one record for each creation time up to n
RECURSIVE ImageTablesUpTo(_)
ImageTablesUpTo(n) ==
    IF n = 0 THEN {{}}
    ELSE LET smaller == ImageTablesUpTo(n - 1)
         IN  smaller \cup {t \cup {r} : t \in smaller, r \in ImageRecordsAt(n)}

\* the client states of the sessions that use the tables
DataClientStates ==
    [currentUserId      : DataUserIds,
     currentUserEmail   : {NoValue},
     syncState          : {Absent},
     persistedSyncState : {Absent},
     throwing           : {"none", "currentUserId"}]

\* String.prototype.toLowerCase
toLowerCase(text) == [i \in 1..Len(text) |-> IF text[i] = "A" THEN "a" ELSE text[i]]

\* String.prototype.includes
includes(text, term) ==
    \E i \in 0..(Len(text) - Len(term)) : SubSeq(text, i + 1, i + Len(term)) = term

\* Array.prototype.join(' ')
RECURSIVE join(_)
join(tags) ==
    IF tags = <<>> THEN <<>>
    ELSE IF Len(tags) = 1 THEN Head(tags)
    ELSE Head(tags) \o <<" ">> \o join(Tail(tags))

\* .where('type').equals(type)
whereType(table, type) == {r \in table : r.type = type}

\* .reverse().sortBy('createdAt'): the newest record first
RECURSIVE newestFirst(_)
newestFirst(rows) ==
    IF rows = {} THEN <<>>
    ELSE LET newest == CHOOSE r \in rows : \A q \in rows : q.createdAt <= r.createdAt
         IN  <<newest>> \o newestFirst(rows \ {newest})

\* noteHelpers.getAllNotes(): isAuthenticated() reads the user id inside the
\* try; the sync attempted for an anonymous user has a catch of its own; any
\* other exception makes the helper return []
getAllNotes(c, table, readFails) ==
    IF getCurrentUserRaises(c) \/ readFails THEN <<>>
    ELSE newestFirst(whereType(table, "note"))

\* the filter callback of searchNotes
noteMatches(note, term) ==
    \/ includes(toLowerCase(note.title), term)
    \/ includes(toLowerCase(note.details), term)
    \/ includes(toLowerCase(join(note.tags)), term)

\* noteHelpers.searchNotes(searchTerm)
searchNotes(c, table, searchTerm, readFails) ==
    IF searchTerm = <<>> THEN getAllNotes(c, table, readFails)
    ELSE IF readFails THEN <<>>
    ELSE newestFirst({r \in whereType(table, "note") : noteMatches(r, toLowerCase(searchTerm))})

\* imageHelpers.getAllImages()
getAllImages(table, readFails) ==
    IF readFails THEN <<>> ELSE newestFirst(whereType(table, "image"))

\* db.cloud.currentUserId || 'anonymous'
ownerOf(c) == IF Truthy(c.currentUserId) THEN c.currentUserId ELSE "anonymous"

\* Date.now() of a new record: later than every record of the table
nowFor(table, max) ==
    CHOOSE t \in 1..max :
        /\ \A r \in table : r.createdAt < t
        /\ \A u \in 1..max : (\A r \in table : r.createdAt < u) => t <= u

\* a table has room for one more record
hasRoom(table, max) == \E t \in 1..max : \A r \in table : r.createdAt < t

\* noteRecord of addNote
noteRecord(c, noteData, now) ==
    [createdAt |-> now, type |-> "note", title |-> noteData.title,
     details |-> noteData.details, tags |-> noteData.tags, owner |-> ownerOf(c)]

\* imageRecord of addImage
imageRecord(c, now) == [createdAt |-> now, type |-> "image", owner |-> ownerOf(c)]

\* the calls of db.cloud.sync() getAllNotes makes: one when isAuthenticated()
\* returns false, none when it returns true or its read of the user id raises
syncAttempts(c) ==
    IF getCurrentUserRaises(c) THEN 0
    ELSE IF isAuthenticated(c) THEN 0
    ELSE 1

\* whether getAllNotes reaches its read of db.notes
readAttempted(c) == ~getCurrentUserRaises(c)

\* whether an exception leaves getAllNotes: the outer catch returns []
getAllNotesThrows(c, readFails) == FALSE

\* what a run of getAllNotes did: the sync it attempted and how that
\* settled, whether its read of db.notes failed, whether it threw
getAllNotesLog(c, syncOutcome, readFails) ==
    [syncCalls   |-> syncAttempts(c),
     syncOutcome |-> IF syncAttempts(c) = 1 THEN syncOutcome ELSE "none",
     readFailed  |-> readAttempted(c) /\ readFails,
     threw       |-> getAllNotesThrows(c, readFails)]

GetAllNotes ==
    /\ \E readFails \in BOOLEAN, syncOutcome \in {"resolved", "rejected"} :
           /\ returned' = getAllNotes(cloud, notes, readFails)
           /\ queryLog' = getAllNotesLog(cloud, syncOutcome, readFails)
    /\ last' = "getAllNotes"
    /\ UNCHANGED <<panelVars, formVars, editorVars, genVars, cloud, notes, images, publicNotes>>

SearchNotes ==
    /\ \E term \in SearchTerms, readFails \in BOOLEAN,
          syncOutcome \in {"resolved", "rejected"} :
           /\ returned' = searchNotes(cloud, notes, term, readFails)
           /\ queryLog' = IF term = <<>>
                          THEN getAllNotesLog(cloud, syncOutcome, readFails)
                          ELSE [NoQuery EXCEPT !.readFailed = readFails]
    /\ last' = "searchNotes"
    /\ UNCHANGED <<panelVars, formVars, editorVars, genVars, cloud, notes, images, publicNotes>>

GetAllImages ==
    /\ \E readFails \in BOOLEAN :
           /\ returned' = getAllImages(images, readFails)
           /\ queryLog' = [NoQuery EXCEPT !.readFailed = readFails]
    /\ last' = "getAllImages"
    /\ UNCHANGED <<panelVars, formVars, editorVars, genVars, cloud, notes, images, publicNotes>>

\* how the REST path of addNote ends: getGlobalWriteToken throws (missing
\* credentials, fetch rejecting, a response that is not ok), the POST is
\* rejected or answered with a response that is not ok, the POST is accepted
\* but reading its response throws (response.json(), result[0]), or the id
\* of the stored record is returned
RestOutcomes == {"token failed", "post failed", "parse failed", "stored"}

\* the public realm has accepted the record
restStores(rest) == rest \in {"parse failed", "stored"}

\* where noteHelpers.addNote(noteData) leaves the note and how it settles:
\* the user id is read inside the try, whose catch rethrows; the database
\* owner's note is posted to the public realm, and whatever addToPublicRealm
\* throws is caught and followed by db.notes.add; every other note goes to
\* db.notes.add directly
addNoteOutcome(c, rest, add) ==
    IF getCurrentUserRaises(c)
    THEN [public |-> FALSE, local |-> FALSE, resolved |-> FALSE]
    ELSE IF c.currentUserId = DatabaseOwner /\ rest = "stored"
    THEN [public |-> TRUE, local |-> FALSE, resolved |-> TRUE]
    ELSE [public   |-> c.currentUserId = DatabaseOwner /\ restStores(rest),
          local    |-> add = "resolved",
          resolved |-> add = "resolved"]

\* the tables after one call of addNote
addNote(noteData, rest, add) ==
    LET record == noteRecord(cloud, noteData, nowFor(notes \cup publicNotes, MaxNotes))
        outcome == addNoteOutcome(cloud, rest, add)
    IN  /\ notes' = IF outcome.local THEN notes \cup {record} ELSE notes
        /\ publicNotes' = IF outcome.public THEN publicNotes \cup {record}
                          ELSE publicNotes

\* a call of noteHelpers.addNote from the new-note form
AddNote ==
    /\ hasRoom(notes \cup publicNotes, MaxNotes)
    /\ \E noteData \in NoteData, rest \in RestOutcomes,
          add \in {"resolved", "rejected"} :
           /\ addNote(noteData, rest, add)
           /\ last' = IF addNoteOutcome(cloud, rest, add).resolved
                      THEN "addNote.resolved" ELSE "addNote.rejected"
    /\ UNCHANGED <<panelVars, formVars, editorVars, genVars, cloud, images, returned, queryLog>>

\* imageHelpers.addImage(imageData)
AddImage ==
    /\ hasRoom(images, MaxImages)
    /\ \E add \in {"resolved", "rejected"} :
           IF getCurrentUserRaises(cloud) \/ add = "rejected"
           THEN /\ UNCHANGED images
                /\ last' = "addImage.rejected"
           ELSE /\ images' = images \cup {imageRecord(cloud, nowFor(images, MaxImages))}
                /\ last' = "addImage.resolved"
    /\ UNCHANGED <<panelVars, formVars, editorVars, genVars, cloud, notes, publicNotes,
                   returned, queryLog>>

\* the session changes: the user signs in or out, or the getter starts or
\* stops raising
SessionChange ==
    /\ \E c \in DataClientStates \ {cloud} :
           /\ \/ c.currentUserId = cloud.currentUserId
              \/ c.throwing = cloud.throwing
           /\ cloud' = c
    /\ last' = "sessionChange"
    /\ UNCHANGED <<panelVars, formVars, editorVars, dataVars, genVars>>

\* the tables as found at start, with the panel not yet reconciled
InitTables ==
    /\ InitView
    /\ cloud \in DataClientStates
    /\ notes \in NoteTablesUpTo(MaxNotes)
    /\ images \in ImageTablesUpTo(MaxImages)
    /\ publicNotes = {}
    /\ returned = <<>>
    /\ queryLog = NoQuery
    /\ InitGen
    /\ InitForm
    /\ InitEditor

NextTables ==
    \/ GetAllNotes
    \/ SearchNotes
    \/ GetAllImages
    \/ AddNote
    \/ AddImage
    \/ SessionChange

\* the helpers of database.js over every content of the local tables
SpecTables == InitTables /\ [][NextTables]_vars

-----------------------------------------------------------------------------
(* generateFromPrompt of App and the GeneratorForm that triggers it. *)

\* longest response of the AI stream, in tokens
MaxResponseLen == 4

\* most chunks the stream yields in one run
MaxChunks == 2

\* the tokens of a response: the braces of the JSON object, one item of its
\* items array, the JSON literal null, and text that is not JSON
Tokens == {"{", "}", "i", "n", "x"}

RECURSIVE TextsUpTo(_)
TextsUpTo(n) ==
    IF n = 0 THEN {<<>>}
    ELSE LET shorter == TextsUpTo(n - 1)
         IN  shorter \cup {Append(t, k) : t \in {u \in shorter : Len(u) = n - 1}, k \in Tokens}

\* the values of the prompt textarea: empty, blank, not blank
Prompts == {<<>>, <<" ">>, <<"a">>}

\* the prompt of the Demo Data button
DemoPrompt == <<"a">>

\* err.message of what callAI, the stream or addNote reject with
AIErrorDescriptions == {"stream failed"}

\* String.prototype.indexOf, counting from 0, -1 when absent
indexOf(text, token) ==
    IF \E i \in 1..Len(text) : text[i] = token
    THEN (CHOOSE i \in 1..Len(text) :
              text[i] = token /\ \A j \in 1..(i - 1) : text[j] # token) - 1
    ELSE -1

\* String.prototype.lastIndexOf
lastIndexOf(text, token) ==
    IF \E i \in 1..Len(text) : text[i] = token
    THEN (CHOOSE i \in 1..Len(text) :
              text[i] = token /\ \A j \in (i + 1)..Len(text) : text[j] # token) - 1
    ELSE -1

\* a relative index of String.prototype.slice, clamped to the text
sliceIndex(k, len) ==
    IF k < 0 THEN (IF len + k < 0 THEN 0 ELSE len + k)
    ELSE IF k > len THEN len ELSE k

\* String.prototype.slice(start, end)
slice(text, start, end) ==
    LET from == sliceIndex(start, Len(text))
        to   == sliceIndex(end, Len(text))
    IN  IF from >= to THEN <<>> ELSE SubSeq(text, from + 1, to)

\* JSON.parse(text) returns: the text is the literal null, or an object
\* whose items array holds zero or more items
JSONParses(text) ==
    \/ text = <<"n">>
    \/ /\ Len(text) >= 2
       /\ text[1] = "{"
       /\ text[Len(text)] = "}"
       /\ \A i \in 2..(Len(text) - 1) : text[i] = "i"

\* the fallback: the segment from the first "{" to the last "}"
recovered(text) == slice(text, indexOf(text, "{"), lastIndexOf(text, "}") + 1)

\* variant: the response parsed as it is, without the fallback
parsedTextNoFallback(text) == text

\* the text whose parse gives `data`
parsedText(text) == IF JSONParses(text) THEN text ELSE recovered(text)

\* the end of the try block up to the loop: "syntax" when both parses
\* throw, "type" when data is null and data.items throws, else "items"
parseOutcome(text) ==
    IF ~JSONParses(parsedText(text)) THEN "syntax"
    ELSE IF parsedText(text) = <<"n">> THEN "type"
    ELSE "items"

\* data.items || data.result?.items || [], by its length
itemCount(text) == Len(parsedText(text)) - 2

\* the note built from a generated item
GeneratedItem == [title |-> <<"A">>, details |-> <<>>, tags |-> <<>>]

\* the description of the SyntaxError and of the TypeError
parseErrorDescription(outcome) ==
    IF outcome = "syntax" THEN "Unexpected token" ELSE "Cannot read properties of null"

\* `Error: ${err?.message || String(err)}`
errorPreview(description) == <<"Error: ", description>>

\* variant: the flag reset at the end of the try block only
aiBusyAfterRunNoFinally(outcome) == outcome = "failed"

\* finally { setAiBusy(false) }
aiBusyAfterRun(outcome) == FALSE

\* the table has room for the notes of one response
hasRoomForResponse ==
    hasRoom(notes \cup publicNotes, MaxNotes - (MaxResponseLen - 3))

\* whether the run throws out of generateFromPrompt: everything after the
\* first two setters is inside the try, and the catch and finally clauses
\* only call setters
generateThrows(outcome) == FALSE

\* the catch clause and the finally clause; the locals of the run are gone
Fail(description) ==
    /\ aiPreview' = errorPreview(description)
    /\ aiBusy' = aiBusyAfterRun("failed")
    /\ genPc' = "idle"
    /\ itemsLeft' = 0
    /\ finalResponse' = <<>>
    /\ chunks' = 0
    /\ genThrown' = (genThrown \/ generateThrows("failed"))

\* the finally clause after the loop has ended
Finish ==
    /\ aiBusy' = aiBusyAfterRun("done")
    /\ genPc' = "idle"
    /\ itemsLeft' = 0
    /\ finalResponse' = <<>>
    /\ chunks' = 0
    /\ genThrown' = (genThrown \/ generateThrows("done"))
    /\ UNCHANGED aiPreview

\* generateFromPrompt(promptText) up to its first await
generateFromPrompt(promptText) ==
    /\ IF trim(promptText) = <<>>
       THEN UNCHANGED <<aiBusy, aiPreview, finalResponse, genPc, itemsLeft, chunks>>
       ELSE /\ aiBusy' = TRUE
            /\ aiPreview' = <<>>
            /\ finalResponse' = <<>>
            /\ genPc' = "calling"
            /\ itemsLeft' = 0
            /\ chunks' = 0
    /\ UNCHANGED <<prompt, genThrown, panelVars, formVars, editorVars, cloud, dataVars>>

\* onChange={(e) => setPrompt(e.target.value)}
ChangePrompt ==
    /\ \E text \in Prompts \ {prompt} : prompt' = text
    /\ last' = "changePrompt"
    /\ UNCHANGED <<aiBusy, aiPreview, finalResponse, genPc, itemsLeft, chunks,
                   genThrown, panelVars, formVars, editorVars, cloud, dataVars>>

\* onClick={() => onGenerate(prompt)}, disabled={busy}
ClickGenerate ==
    /\ ~disabled(aiBusy)
    /\ hasRoomForResponse
    /\ generateFromPrompt(prompt)
    /\ last' = "generate"

\* onClick={onDemo}, disabled={busy}
ClickDemo ==
    /\ ~disabled(aiBusy)
    /\ hasRoomForResponse
    /\ generateFromPrompt(DemoPrompt)
    /\ last' = "demo"

\* await callAI(...) resolves with the generator
CallAIResolves ==
    /\ genPc = "calling"
    /\ genPc' = "streaming"
    /\ last' = "callAI.resolved"
    /\ UNCHANGED <<prompt, aiBusy, aiPreview, finalResponse, itemsLeft, chunks,
                   genThrown, panelVars, formVars, editorVars, cloud, dataVars>>

\* await callAI(...) rejects
CallAIRejects ==
    /\ genPc = "calling"
    /\ \E d \in AIErrorDescriptions : Fail(d)
    /\ last' = "callAI.rejected"
    /\ UNCHANGED <<prompt, panelVars, formVars, editorVars, cloud, dataVars>>

\* the chunks that may follow the text streamed so far: the responses of
\* which it is a proper prefix
chunksAfter(text) ==
    {text \o more : more \in TextsUpTo(MaxResponseLen - Len(text)) \ {<<>>}}

\* one iteration of for await (const chunk of generator): every chunk is
\* the response as streamed so far
StreamChunk ==
    /\ genPc = "streaming"
    /\ chunks < MaxChunks
    /\ \E chunk \in chunksAfter(finalResponse) :
           /\ aiPreview' = chunk
           /\ finalResponse' = chunk
    /\ chunks' = chunks + 1
    /\ last' = "chunk"
    /\ UNCHANGED <<prompt, aiBusy, genPc, itemsLeft, genThrown, panelVars, formVars,
                   editorVars, cloud, dataVars>>

\* the generator throws
StreamThrows ==
    /\ genPc = "streaming"
    /\ \E d \in AIErrorDescriptions : Fail(d)
    /\ last' = "stream.rejected"
    /\ UNCHANGED <<prompt, panelVars, formVars, editorVars, cloud, dataVars>>

\* the generator is done: the response is parsed, and the first addNote of
\* the loop is called when there are items
StreamEnds ==
    /\ genPc = "streaming"
    /\ IF parseOutcome(finalResponse) # "items"
       THEN Fail(parseErrorDescription(parseOutcome(finalResponse)))
       ELSE IF itemCount(finalResponse) = 0
       THEN Finish
       ELSE /\ genPc' = "adding"
            /\ itemsLeft' = itemCount(finalResponse)
            /\ UNCHANGED <<aiBusy, aiPreview, finalResponse, chunks, genThrown>>
    /\ last' = "streamEnd"
    /\ UNCHANGED <<prompt, panelVars, formVars, editorVars, cloud, dataVars>>

\* await noteHelpers.addNote(...) of the loop settles; the loop goes on to
\* the next item, or ends
AddItem ==
    /\ genPc = "adding"
    /\ \E rest \in RestOutcomes, add \in {"resolved", "rejected"} :
           /\ addNote(GeneratedItem, rest, add)
           /\ IF ~addNoteOutcome(cloud, rest, add).resolved
              THEN /\ \E d \in AIErrorDescriptions : Fail(d)
                   /\ last' = "addItem.rejected"
              ELSE /\ IF itemsLeft = 1
                      THEN Finish
                      ELSE /\ itemsLeft' = itemsLeft - 1
                           /\ UNCHANGED <<aiBusy, aiPreview, finalResponse, genPc,
                                          chunks, genThrown>>
                   /\ last' = "addItem.resolved"
    /\ UNCHANGED <<prompt, panelVars, formVars, editorVars, cloud, images, returned, queryLog>>

InitGenerator ==
    /\ InitView
    /\ InitApp
    /\ cloud \in DataClientStates

NextGenerator ==
    \/ ChangePrompt
    \/ ClickGenerate
    \/ ClickDemo
    \/ CallAIResolves
    \/ CallAIRejects
    \/ StreamChunk
    \/ StreamThrows
    \/ StreamEnds
    \/ AddItem
    \/ SessionChange

\* the generator driven through GeneratorForm
SpecGenerator == InitGenerator /\ [][NextGenerator]_vars

-----------------------------------------------------------------------------
(* The new-note form of App (src/src/app.jsx). *)

\* what is typed into the title input: nothing, a blank, a letter
Titles == {<<>>, <<" ">>, <<"A">>}

\* what is typed into the tag input of the form: nothing, a blank, a tag
\* with a blank before it, another tag
TagInputs == {<<>>, <<" ">>, <<" ", "a">>, <<"b">>}

\* the names of the files dropped on a card
FileNames == {"f"}

\* the options of the priority select that the model uses
Priorities == {"medium", "high"}

\* { ...base, ...updates }
merge(base, updates) ==
    [k \in DOMAIN base \cup DOMAIN updates |->
        IF k \in DOMAIN updates THEN updates[k] ELSE base[k]]

\* Array.from(new Set(list)): each value once, at its first position
RECURSIVE unique(_)
unique(list) ==
    IF list = <<>> THEN <<>>
    ELSE LET front == unique(SubSeq(list, 1, Len(list) - 1))
             x == list[Len(list)]
         IN  IF \E i \in 1..Len(front) : front[i] = x THEN front ELSE Append(front, x)

\* list.filter(x => x !== t)
filter(list, t) == SelectSeq(list, LAMBDA x : x # t)

\* a list without its i-th element
removeAt(list, i) == SubSeq(list, 1, i - 1) \o SubSeq(list, i + 1, Len(list))

\* a variant of nextTags that appends without the Set
nextTagsNoSet(tags, t) == Append(tags, t)

\* next of addTag and of TagEditor's add
nextTags(tags, t) == unique(Append(tags, t))

\* updateNewNote(updates)
updateNewNote(upd) == newNote' = merge(newNote, upd)

\* onChange of the title input
ChangeTitle ==
    /\ \E t \in Titles : updateNewNote([title |-> t])
    /\ last' = "changeTitle"
    /\ UNCHANGED <<tagInput, saves, saveThrown, panelVars, cloud, dataVars, genVars,
                   editorVars>>

\* onChange of the priority select
ChangePriority ==
    /\ \E p \in Priorities : updateNewNote([priority |-> p])
    /\ last' = "changePriority"
    /\ UNCHANGED <<tagInput, saves, saveThrown, panelVars, cloud, dataVars, genVars,
                   editorVars>>

\* handleDropNew(e)
HandleDropNew ==
    /\ \E dropped \in SUBSET FileNames :
           IF dropped = {} THEN UNCHANGED newNote
           ELSE updateNewNote([files |-> newNote.files \cup dropped])
    /\ last' = "handleDropNew"
    /\ UNCHANGED <<tagInput, saves, saveThrown, panelVars, cloud, dataVars, genVars,
                   editorVars>>

\* onChange of the tag input
ChangeTagInput ==
    /\ \E t \in TagInputs : tagInput' = t
    /\ last' = "changeTagInput"
    /\ UNCHANGED <<newNote, saves, saveThrown, panelVars, cloud, dataVars, genVars,
                   editorVars>>

\* addTag(tag); addTag() passes undefined, falsy like the empty text that
\* stands for it here
addTag(tag) ==
    LET t == trim(IF tag = <<>> THEN tagInput ELSE tag)
    IN  IF t = <<>> THEN UNCHANGED <<newNote, tagInput>>
        ELSE /\ updateNewNote([tags |-> nextTags(newNote.tags, t)])
             /\ tagInput' = <<>>

\* the ADD button, and Enter in the tag input
ClickAdd ==
    /\ addTag(<<>>)
    /\ last' = "addTag"
    /\ UNCHANGED <<saves, saveThrown, panelVars, cloud, dataVars, genVars, editorVars>>

\* allTags: the tags of the notes that the live query returned
allTags ==
    LET notesRaw == getAllNotes(cloud, notes, FALSE)
    IN  UNION {{notesRaw[i].tags[j] : j \in 1..Len(notesRaw[i].tags)} :
               i \in 1..Len(notesRaw)}

\* tagSuggestions; its slice(0, 6) cuts nothing off the tags of the model
tagSuggestions ==
    LET q == toLowerCase(trim(tagInput))
    IN  IF q = <<>> THEN {}
        ELSE {t \in allTags :
                 /\ includes(toLowerCase(t), q)
                 /\ \A i \in 1..Len(newNote.tags) : newNote.tags[i] # t}

\* a click on a suggested tag
ClickSuggestion ==
    /\ \E t \in tagSuggestions : addTag(t)
    /\ last' = "addTag.suggested"
    /\ UNCHANGED <<saves, saveThrown, panelVars, cloud, dataVars, genVars, editorVars>>

\* removeTag(t), from the x of a badge
RemoveTag ==
    /\ \E i \in 1..Len(newNote.tags) :
           updateNewNote([tags |-> filter(newNote.tags, newNote.tags[i])])
    /\ last' = "removeTag"
    /\ UNCHANGED <<tagInput, saves, saveThrown, panelVars, cloud, dataVars, genVars,
                   editorVars>>

\* the RESET button
ResetForm ==
    /\ newNote' = DefaultNote
    /\ tagInput' = <<>>
    /\ last' = "reset"
    /\ UNCHANGED <<saves, saveThrown, panelVars, cloud, dataVars, genVars, editorVars>>

\* the creation time of the newest record, 0 for an empty table
latest(table) ==
    IF table = {} THEN 0
    ELSE (CHOOSE r \in table : \A q \in table : q.createdAt <= r.createdAt).createdAt

\* saveNewNote() up to its await: nothing for a title that is empty after
\* trimming, else a call of addNote with the form's contents
SaveNewNote ==
    /\ IF trim(newNote.title) = <<>>
       THEN /\ UNCHANGED saves
            /\ last' = "saveNewNote.noop"
       ELSE /\ Len(saves) < MaxSaves
            /\ latest(notes \cup publicNotes) + Len(saves) < MaxCards
            /\ saves' = Append(saves, newNote)
            /\ last' = "saveNewNote"
    /\ UNCHANGED <<newNote, tagInput, saveThrown, panelVars, cloud, dataVars, genVars,
                   editorVars>>

\* a variant of formAfterSave that resets the form whatever the outcome
formAfterSaveAlways(form, resolved) == DefaultNote

\* the form after the awaited addNote settled: the reset is skipped when
\* the call rejected
formAfterSave(form, resolved) == IF resolved THEN DefaultNote ELSE form

\* the tag input after the awaited addNote settled
tagInputAfterSave(input, resolved) == IF resolved THEN <<>> ELSE input

\* whether an exception leaves saveNewNote: the catch logs and returns
saveNewNoteThrows(resolved) == FALSE

\* saveNewNote() after its awaited addNote settled
SaveSettle ==
    /\ \E i \in 1..Len(saves), rest \in RestOutcomes, add \in {"resolved", "rejected"} :
           LET resolved == addNoteOutcome(cloud, rest, add).resolved
           IN  /\ addNote(saves[i], rest, add)
               /\ saves' = removeAt(saves, i)
               /\ newNote' = formAfterSave(newNote, resolved)
               /\ tagInput' = tagInputAfterSave(tagInput, resolved)
               /\ saveThrown' = (saveThrown \/ saveNewNoteThrows(resolved))
               /\ last' = IF resolved THEN "saveNewNote.resolved"
                          ELSE "saveNewNote.rejected"
    /\ UNCHANGED <<panelVars, cloud, images, returned, queryLog, genVars, editorVars>>

\* the form on its own, for every session
InitFormSpec ==
    /\ InitView
    /\ InitApp
    /\ cloud \in DataClientStates

NextForm ==
    \/ ChangeTitle
    \/ ChangePriority
    \/ HandleDropNew
    \/ ChangeTagInput
    \/ ClickAdd
    \/ RemoveTag
    \/ ResetForm
    \/ SaveNewNote
    \/ SaveSettle

SpecForm == InitFormSpec /\ [][NextForm]_vars

-----------------------------------------------------------------------------
(* DetailEditor and TagEditor of src/src/app.jsx. *)

\* what is typed into the input of TagEditor: nothing, a blank, a tag with
\* a blank after it, a tag of two letters that the form comes to suggest
EditorVals == {<<>>, <<" ">>, <<"a", " ">>, <<"b", "a">>}

\* the primary key of a note: the model names a record by its creation
\* time, which no two records of the table share
idOf(r) == r.createdAt

\* a value of doc that is a note: neither null nor undefined
isNote(d) == "createdAt" \in DOMAIN d

\* db.notes.get(id)
get(table, id) ==
    IF \E r \in table : idOf(r) = id THEN CHOOSE r \in table : idOf(r) = id ELSE NoDoc

\* noteHelpers.getNote(id): null when the read throws
getNote(table, id, getFails) == IF getFails THEN NoDoc ELSE get(table, id)

\* db.notes.update(id, updates)
update(table, id, upd) == {IF idOf(r) = id THEN merge(r, upd) ELSE r : r \in table}

\* db.notes.delete(id)
delete(table, id) == {r \in table : idOf(r) # id}

\* doc._files || {}
filesOf(d) == IF "files" \in DOMAIN d THEN d.files ELSE {}

\* the render of DetailEditor reaches the editing grid
showsDoc == selectedId # NoSelection /\ ~loading /\ isNote(doc)

\* the DetailEditor leaves the tree: its state and TagEditor's are dropped,
\* and the loads it awaits find no component to set
Unmount ==
    /\ doc' = NoDoc
    /\ loading' = TRUE
    /\ val' = <<>>
    /\ loads' = <<>>

\* a click on a card of the list: setSelectedId(n.id).  App renders
\* DetailEditor at the same place for every id, so its state survives a
\* change of noteId and only the effect runs again, calling getNote
SelectNote ==
    /\ Len(loads) < MaxLoads
    /\ LET listed == getAllNotes(cloud, notes, FALSE)
       IN  \E i \in 1..Len(listed) :
               /\ idOf(listed[i]) # selectedId
               /\ selectedId' = idOf(listed[i])
               /\ loads' = Append(loads, idOf(listed[i]))
    /\ last' = "select"
    /\ UNCHANGED <<doc, loading, val, pending, editorThrown, panelVars, cloud, dataVars,
                   genVars, formVars>>

\* loading after a getNote settled: setLoading(false) in the finally clause
loadingAfterLoad(settled) == FALSE

\* loadNote() after its awaited getNote settled: setDoc(note), and
\* setLoading(false) in the finally clause
LoadSettle ==
    /\ \E i \in 1..Len(loads), getFails \in BOOLEAN :
           /\ doc' = getNote(notes, loads[i], getFails)
           /\ loads' = removeAt(loads, i)
           /\ val' = IF showsDoc /\ isNote(doc') THEN val ELSE <<>>
    /\ loading' = loadingAfterLoad(TRUE)
    /\ last' = "load.settled"
    /\ UNCHANGED <<selectedId, pending, editorThrown, panelVars, cloud, dataVars, genVars,
                   formVars>>

\* the CLOSE button: onClose()
Close ==
    /\ showsDoc
    /\ selectedId' = NoSelection
    /\ Unmount
    /\ last' = "close"
    /\ UNCHANGED <<pending, editorThrown, panelVars, cloud, dataVars, genVars, formVars>>

\* updateDoc(updates) up to its await: setDoc, then the call of updateNote
updateDoc(upd) ==
    /\ doc' = merge(doc, upd)
    /\ pending' = Append(pending, [op |-> "update", id |-> selectedId, updates |-> upd])

\* onChange of the editor's title input
ChangeDocTitle ==
    /\ showsDoc
    /\ Len(pending) < MaxUpdates
    /\ \E t \in Titles : updateDoc([title |-> t])
    /\ last' = "updateDoc.title"
    /\ UNCHANGED <<selectedId, loading, val, loads, editorThrown, panelVars, cloud,
                   dataVars, genVars, formVars>>

\* onChange of TagEditor's input
ChangeVal ==
    /\ showsDoc
    /\ \E t \in EditorVals : val' = t
    /\ last' = "changeVal"
    /\ UNCHANGED <<selectedId, doc, loading, loads, pending, editorThrown, panelVars,
                   cloud, dataVars, genVars, formVars>>

\* add() of TagEditor, whose onChange is updateDoc({ tags })
TagEditorAdd ==
    /\ showsDoc
    /\ Len(pending) < MaxUpdates
    /\ LET t == trim(val)
       IN  IF t = <<>> THEN UNCHANGED <<doc, val, pending>>
           ELSE /\ updateDoc([tags |-> nextTags(doc.tags, t)])
                /\ val' = <<>>
    /\ last' = "tagEditor.add"
    /\ UNCHANGED <<selectedId, loading, loads, editorThrown, panelVars, cloud, dataVars,
                   genVars, formVars>>

\* the x of a badge of TagEditor
TagEditorRemove ==
    /\ showsDoc
    /\ Len(pending) < MaxUpdates
    /\ \E i \in 1..Len(doc.tags) : updateDoc([tags |-> filter(doc.tags, doc.tags[i])])
    /\ last' = "tagEditor.remove"
    /\ UNCHANGED <<selectedId, loading, val, loads, editorThrown, panelVars, cloud,
                   dataVars, genVars, formVars>>

\* handleDrop(e): nothing without files, else the bucket goes to doc and
\* to updateNote
HandleDrop ==
    /\ showsDoc
    /\ Len(pending) < MaxUpdates
    /\ \E dropped \in SUBSET FileNames :
           IF dropped = {} THEN UNCHANGED <<doc, pending>>
           ELSE updateDoc([files |-> filesOf(doc) \cup dropped])
    /\ last' = "handleDrop"
    /\ UNCHANGED <<selectedId, loading, val, loads, editorThrown, panelVars, cloud,
                   dataVars, genVars, formVars>>

\* the REMOVE button of an attachment
RemoveAttachment ==
    /\ showsDoc
    /\ Len(pending) < MaxUpdates
    /\ \E name \in filesOf(doc) : updateDoc([files |-> filesOf(doc) \ {name}])
    /\ last' = "removeAttachment"
    /\ UNCHANGED <<selectedId, loading, val, loads, editorThrown, panelVars, cloud,
                   dataVars, genVars, formVars>>

\* deleteNote() of the editor up to its await
DeleteNote ==
    /\ showsDoc
    /\ Len(pending) < MaxUpdates
    /\ pending' = Append(pending, [op |-> "delete", id |-> selectedId])
    /\ last' = "deleteNote"
    /\ UNCHANGED <<selectedId, doc, loading, val, loads, editorThrown, panelVars, cloud,
                   dataVars, genVars, formVars>>

\* an awaited updateNote or deleteNote settles.  Neither updateDoc nor
\* handleDrop nor deleteNote has a catch, and the helpers rethrow: a
\* rejection leaves the handler.  After a resolved deleteNote, onClose()
PendingSettle ==
    /\ \E i \in 1..Len(pending), outcome \in {"resolved", "rejected"} :
           LET call == pending[i]
           IN  /\ pending' = removeAt(pending, i)
               /\ editorThrown' = (editorThrown \/ outcome = "rejected")
               /\ notes' = IF outcome = "rejected" THEN notes
                           ELSE IF call.op = "update"
                           THEN update(notes, call.id, call.updates)
                           ELSE delete(notes, call.id)
               /\ IF outcome = "resolved" /\ call.op = "delete"
                  THEN /\ selectedId' = NoSelection
                       /\ Unmount
                  ELSE UNCHANGED <<selectedId, doc, loading, val, loads>>
               /\ last' = IF outcome = "resolved" THEN call.op \o ".resolved"
                          ELSE call.op \o ".rejected"
    /\ UNCHANGED <<panelVars, cloud, images, publicNotes, returned, queryLog, genVars,
                   formVars>>

\* a signed-in user whose reads of the client do not raise
EditorClientStates ==
    {c \in DataClientStates : c.currentUserId = "u1" /\ c.throwing = "none"}

\* the form with a title typed in, the tables empty, no card selected
InitTags ==
    /\ InitView
    /\ InitData
    /\ InitGen
    /\ InitEditor
    /\ newNote = [DefaultNote EXCEPT !.title = <<"A">>]
    /\ tagInput = <<>>
    /\ saves = <<>>
    /\ saveThrown = FALSE
    /\ cloud \in EditorClientStates

NextTags ==
    \/ ChangeTagInput
    \/ ClickAdd
    \/ ClickSuggestion
    \/ RemoveTag
    \/ ResetForm
    \/ SaveNewNote
    \/ SaveSettle
    \/ SelectNote
    \/ LoadSettle
    \/ ChangeVal
    \/ TagEditorAdd
    \/ TagEditorRemove
    \/ PendingSettle

\* the tag lists of the form and of the editor
SpecTags == InitTags /\ [][NextTags]_vars

\* two cards that the form has stored
EditorNotes ==
    {noteRecord(c, [DefaultNote EXCEPT !.title = <<"A">>], t) :
        c \in EditorClientStates, t \in 1..2}

\* the list holds two cards, none is selected
InitEditorSpec ==
    /\ InitView
    /\ InitGen
    /\ InitForm
    /\ InitEditor
    /\ cloud \in EditorClientStates
    /\ notes = EditorNotes
    /\ images = {}
    /\ publicNotes = {}
    /\ returned = <<>>
    /\ queryLog = NoQuery

NextEditor ==
    \/ SelectNote
    \/ LoadSettle
    \/ Close
    \/ ChangeDocTitle
    \/ HandleDrop
    \/ RemoveAttachment
    \/ DeleteNote
    \/ PendingSettle

\* the editor over the cards of the list
SpecEditor == InitEditorSpec /\ [][NextEditor]_vars

-----------------------------------------------------------------------------
(* What a reconciliation pass read, stated from the client's fields. *)

\* the latest step was a pass, so the client is as the pass read it
AfterPass == last = "reconcile"

\* the pass met a read that raised
PassRaised ==
    \/ cloud.throwing = "currentUserId"
    \/ cloud.throwing = "syncState"
    \/ cloud.throwing = "persistedSyncState" /\ ~cloud.syncState.present

\* the user id is present, non-empty and not the sentinel
IdIsValid == cloud.currentUserId \notin {NoValue, "", "unauthorized"}

\* the phase field of the object the pass read, undefined if it has none
RawPhase ==
    IF cloud.syncState.present THEN cloud.syncState.phase
    ELSE IF cloud.persistedSyncState.present THEN cloud.persistedSyncState.phase
    ELSE NoValue

\* the phase of the pass: the raw phase, or "unknown" in its absence
ReadPhase == IF RawPhase = NoValue THEN "unknown" ELSE RawPhase

-----------------------------------------------------------------------------
(* C1: a reconciliation pass that completes without a reader exception sets
   isSyncing = (phase = "syncing") and isOnline = (phase = "online" or
   (isLoggedIn and phase = "unknown")) for the phase and login flag it read;
   with no phase and a logged-in user the status is online, not syncing,
   phase "unknown"; with phase "syncing" and a logged-in user it is syncing,
   not online. *)
C1_ReconcileFormula ==
    (AfterPass /\ ~PassRaised) =>
        /\ syncStatus.isSyncing = (ReadPhase = "syncing")
        /\ syncStatus.isOnline =
               (ReadPhase = "online" \/ (IdIsValid /\ ReadPhase = "unknown"))
        /\ (RawPhase = NoValue /\ IdIsValid) =>
               /\ syncStatus.isOnline
               /\ ~syncStatus.isSyncing
               /\ syncStatus.phase = "unknown"
        /\ (RawPhase = "syncing" /\ IdIsValid) =>
               /\ ~syncStatus.isOnline
               /\ syncStatus.isSyncing

C1_Witness ==
    /\ AfterPass /\ ~PassRaised
    /\ cloud.currentUserId = "u1"
    /\ ~cloud.syncState.present /\ ~cloud.persistedSyncState.present
    /\ syncStatus.isOnline /\ syncStatus.phase = "unknown"

(* C2: in every reachable state of the view, across commands and client
   changes, syncStatus.isOnline and syncStatus.isSyncing are never both
   true. *)
C2_NeverOnlineAndSyncing == ~(syncStatus.isOnline /\ syncStatus.isSyncing)

C2_Witness ==
    /\ AfterPass
    /\ message = "Sync triggered"
    /\ currentUser.isLoggedIn
    /\ syncStatus.isSyncing /\ ~syncStatus.isOnline

(* C3, as stated: getCurrentUser().isLoggedIn, isAuthenticated() and the
   currentUser.isLoggedIn a pass stores are true exactly when the user id is
   present, non-empty and not "unauthorized".  Taken for the passes whose
   read of the user id did not raise. *)
C3_Original ==
    ~getCurrentUserRaises(cloud) =>
        /\ getCurrentUser(cloud).isLoggedIn = IdIsValid
        /\ isAuthenticated(cloud) = IdIsValid
        /\ AfterPass => currentUser.isLoggedIn = IdIsValid

(* C3, amended: getCurrentUser().isLoggedIn and isAuthenticated() are true
   exactly when the user id is present, non-empty and not "unauthorized",
   and so is the currentUser.isLoggedIn stored by a pass that completes
   without a reader exception; a pass in which a read raised stores false
   whatever the id.  With the id "unauthorized" all three are false whether
   or not an e-mail is present. *)
C3_SessionClassification ==
    /\ ~getCurrentUserRaises(cloud) =>
           /\ getCurrentUser(cloud).isLoggedIn = IdIsValid
           /\ isAuthenticated(cloud) = IdIsValid
    /\ (AfterPass /\ ~PassRaised) => currentUser.isLoggedIn = IdIsValid
    /\ (AfterPass /\ PassRaised) => ~currentUser.isLoggedIn
    /\ (AfterPass /\ cloud.currentUserId = "unauthorized") => ~currentUser.isLoggedIn

C3_Witness ==
    /\ AfterPass /\ ~PassRaised
    /\ cloud.currentUserId = "unauthorized"
    /\ cloud.currentUserEmail = "a@b.com"
    /\ currentUser.email = "a@b.com"
    /\ ~currentUser.isLoggedIn

(* C4: when a read raises during a pass, the exception does not leave the
   pass, the pass ends with currentUser = {isLoggedIn: false} and syncStatus
   = {isOnline: false, isSyncing: false, phase: "error"}, also when the
   identity read reported a logged-in user and only the sync state read
   raised, and the pass leaves the message as it was. *)
C4_ErrorFallback ==
    /\ []((AfterPass /\ PassRaised) =>
            /\ currentUser = [isLoggedIn |-> FALSE]
            /\ syncStatus = [isOnline |-> FALSE, isSyncing |-> FALSE, phase |-> "error"]
            /\ ~unhandled)
    /\ [][(effectPending /\ last' = "reconcile") => message' = message]_vars

C4_Witness ==
    /\ AfterPass
    /\ cloud.currentUserId = "u1" /\ cloud.throwing = "syncState"
    /\ message = "Sign in failed: network down"
    /\ syncStatus.phase = "error" /\ ~currentUser.isLoggedIn

(* C5: the session reader and the sync phase reader never raise by
   themselves, so no pass ever meets a read that raised. *)
C5_ReadersNeverThrow == AfterPass => authCheckError = "none"

(* C6: the pass takes phase and lastSync from the live sync state whenever
   it is present, from the persisted one only when the live one is absent,
   from an empty record when both are absent; the phase is "unknown" when
   the chosen object has none, and with the live object present the
   persisted one is not consulted, not even read. *)
C6_PhaseReader ==
    AfterPass =>
        /\ (cloud.syncState.present /\ cloud.throwing = "persistedSyncState")
               => authCheckError = "none"
        /\ (~PassRaised /\ cloud.syncState.present) =>
               /\ syncStatus.lastSync = cloud.syncState.lastSync
               /\ syncStatus.phase =
                      IF cloud.syncState.phase = NoValue THEN "unknown"
                      ELSE cloud.syncState.phase
        /\ (~PassRaised /\ ~cloud.syncState.present /\ cloud.persistedSyncState.present) =>
               /\ syncStatus.lastSync = cloud.persistedSyncState.lastSync
               /\ syncStatus.phase =
                      IF cloud.persistedSyncState.phase = NoValue THEN "unknown"
                      ELSE cloud.persistedSyncState.phase
        /\ (~PassRaised /\ ~cloud.syncState.present /\ ~cloud.persistedSyncState.present) =>
               /\ syncStatus.lastSync = NoValue
               /\ syncStatus.phase = "unknown"

C6_Witness ==
    /\ AfterPass /\ ~PassRaised
    /\ cloud.syncState.present /\ cloud.syncState.phase = NoValue
    /\ cloud.persistedSyncState.phase = "online"
    /\ syncStatus.phase = "unknown" /\ syncStatus.lastSync = "t1"
    /\ ~syncStatus.isOnline

-----------------------------------------------------------------------------
\* the latest step was the continuation of a handler after its call settled
Settled ==
    last \in {c \o "." \o o : c \in Commands, o \in {"resolved", "rejected"}}

(* C7: for a command run on its own through the controls, the busy flag is
   true in every state in which its external call has not settled, is false
   once the call has settled, resolved or rejected, and, every call settling
   eventually, a busy view eventually returns to idle. *)
C7_BusyWhileInFlight ==
    /\ [](InFlight > 0 => isLoading)
    /\ [](Settled => ~isLoading)
    /\ [][(InFlight' > InFlight) => isLoading']_vars
    /\ (isLoading ~> ~isLoading)

C7_Witness ==
    /\ last = "signOut.rejected"
    /\ InFlight = 0 /\ ~isLoading
    /\ message = "Sign out failed: network down"

(* C8: each of the three commands clears the message before awaiting its
   external call, so no message is displayed while a call is in flight. *)
C8_MessageClearedInFlight == InFlight > 0 => message = ""

(* C9: handleSignIn with an e-mail that is empty after trimming issues no
   external call and leaves busy, message, email, formOpen, currentUser and
   syncStatus unchanged. *)
C9_EmptySignInIsNoOp ==
    [][(last' = "handleSignIn" /\ \A i \in 1..Len(email) : email[i] = " ")
          => UNCHANGED <<isLoading, message, email, showAuthForm,
                         currentUser, syncStatus, inflight>>]_vars

C9_Witness ==
    /\ last = "handleSignIn"
    /\ email = <<" ">>
    /\ InFlight = 0 /\ ~isLoading

(* C10: when a command's external call resolves, the message is that
   command's success string and the busy flag is false; signIn also clears
   the e-mail field, signOut and forceSync leave it unchanged. *)
C10_SuccessMessages ==
    /\ [](last = "signIn.resolved" =>
            /\ message = "Check your email for the login link!"
            /\ ~isLoading
            /\ email = <<>>)
    /\ [](last = "signOut.resolved" =>
            /\ message = "Signed out successfully"
            /\ ~isLoading)
    /\ [](last = "forceSync.resolved" =>
            /\ message = "Sync triggered"
            /\ ~isLoading)
    /\ [][last' \in {"signOut.resolved", "forceSync.resolved"} => email' = email]_vars

C10_Witness ==
    /\ last = "signOut.resolved"
    /\ message = "Signed out successfully"
    /\ email = <<"a">>
    /\ ~isLoading

-----------------------------------------------------------------------------
(* C11: when the external call of a command rejects with description D, the
   message becomes "<Action> failed: D", the description unchanged by the
   syncHelpers wrappers, the busy flag is false, and a failed signIn leaves
   the e-mail field as it was. *)
C11_FailureMessages ==
    /\ [](last = "signIn.rejected" =>
            /\ message \in {"Sign in failed: " \o d : d \in ErrorDescriptions}
            /\ ~isLoading)
    /\ [](last = "signOut.rejected" =>
            /\ message \in {"Sign out failed: " \o d : d \in ErrorDescriptions}
            /\ ~isLoading)
    /\ [](last = "forceSync.rejected" =>
            /\ message \in {"Sync failed: " \o d : d \in ErrorDescriptions}
            /\ ~isLoading)
    /\ [][last' = "signIn.rejected" => email' = email]_vars

C11_Witness ==
    /\ last = "signIn.rejected"
    /\ message = "Sign in failed: network down"
    /\ email = <<"a">>
    /\ ~isLoading

\* the <Action> of a failure message
ActionName(c) ==
    CASE c = "signIn" -> "Sign in" [] c = "signOut" -> "Sign out" [] c = "forceSync" -> "Sync"

(* C12: an invocation of signIn with a non-empty trimmed e-mail, of signOut
   or of forceSync issues exactly one call, to its own external method; a
   rejection is turned into the message, does not leave the handler, and
   issues no further call. *)
C12_OneCallNoRetry ==
    /\ [][(last' = "handleSignIn" /\ \E i \in 1..Len(email) : email[i] # " ")
            => inflight' = [inflight EXCEPT !["signIn"] = @ + 1]]_vars
    /\ [][last' = "handleSignOut"
            => inflight' = [inflight EXCEPT !["signOut"] = @ + 1]]_vars
    /\ [][last' = "handleForceSync"
            => inflight' = [inflight EXCEPT !["forceSync"] = @ + 1]]_vars
    /\ [][\A c \in Commands :
            last' = c \o ".rejected" =>
                /\ inflight' = [inflight EXCEPT ![c] = @ - 1]
                /\ \E d \in ErrorDescriptions :
                       message' = ActionName(c) \o " failed: " \o d
                /\ ~unhandled']_vars
    /\ [](~unhandled)

C12_Witness ==
    /\ last = "forceSync.rejected"
    /\ message = "Sync failed: network down"
    /\ InFlight = 0
    /\ ~unhandled

(* C13: whenever a command completes, with either outcome, the effect runs
   again after the completion. *)
C13_PassAfterEveryCompletion == Settled => effectPending

(* C14: after the mount pass and after every later pass the view shows the
   connected card exactly when the identity stored by the latest pass has
   isLoggedIn = true, and the signed-out card otherwise; the view changes
   card in no other step; handleSignIn runs only from the signed-out card
   with the form open, handleSignOut and handleForceSync only from the
   connected card. *)
C14_ViewFollowsIdentity ==
    /\ [](AfterPass =>
            /\ LoggedInView = AuthCheck(cloud).user.isLoggedIn
            /\ LoggedInView = (IdIsValid /\ ~PassRaised)
            /\ LoggedOutView = ~LoggedInView)
    /\ [][last' # "reconcile" => (LoggedInView' = LoggedInView)]_vars
    /\ [][last' = "handleSignIn" =>
              (~currentUser.isLoggedIn /\ showAuthForm)]_vars
    /\ [][last' \in {"handleSignOut", "handleForceSync"} =>
              currentUser.isLoggedIn]_vars

C14_Witness ==
    /\ last = "handleSignOut"
    /\ currentUser.isLoggedIn
    /\ LoggedInView
    /\ message = "Sync triggered"
    /\ inflight["signOut"] = 1

(* C15: with the commands triggered through the rendered controls, at most
   one external call is in flight in any state, and the busy flag is true in
   every state in which a call is in flight. *)
C15_OneCommandAtATime ==
    /\ InFlight <= 1
    /\ InFlight > 0 => isLoading

C15_Witness ==
    /\ last = "handleForceSync"
    /\ InFlight = 1
    /\ inflight["forceSync"] = 1
    /\ isLoading

(* C16: a reconciliation pass issues no external call and leaves the busy
   flag, the message, the e-mail, the form flag and the client unchanged; the
   currentUser and syncStatus it stores are those a further pass over the
   same client state would store. *)
C16_PassIsPure ==
    /\ [][last' = "reconcile" =>
              UNCHANGED <<isLoading, message, email, showAuthForm, inflight, cloud>>]_vars
    /\ [](AfterPass =>
            /\ currentUser = AuthCheck(cloud).user
            /\ syncStatus = AuthCheck(cloud).status)

C16_Witness ==
    /\ AfterPass
    /\ isLoading /\ InFlight = 1
    /\ showAuthForm
    /\ email = <<"a">>
    /\ message = ""
    /\ currentUser = AuthCheck(cloud).user

(* C17: the view never reaches a crashed state, whatever the client does:
   no exception leaves a handler, the effect or a render uncaught. *)
C17_NeverCrashes == ~unhandled

\* the status values of every shape the view can hold
StatusValues ==
    [isOnline : BOOLEAN, isSyncing : BOOLEAN, phase : ClientPhases \cup {NoValue}]

\* the state a badge label stands for
StateOfLabel(label) ==
    CASE label = "SYNCING" -> "syncing"
      [] label = "ONLINE"  -> "online"
      [] label = "OFFLINE" -> "offline"
      [] OTHER             -> "unknown"

\* the state a status text stands for
StateOfText(text) ==
    IF text = "SYNCING DATA..." THEN "syncing"
    ELSE IF text = "ONLINE & READY" THEN "online"
    ELSE IF text \in {"OFFLINE (" \o p \o ")" : p \in ClientPhases \cup {"no-phase"}}
    THEN "offline"
    ELSE "unknown"

\* the badge and the text of status s agree, and are those of the claim
IndicatorAgrees(s) ==
    LET badge == SyncStatusIndicator(s)
    IN  /\ StateOfLabel(badge.label) \in {"syncing", "online", "offline"}
        /\ s.isSyncing =>
               badge = [label |-> "SYNCING", colour |-> "yellow", pulsing |-> TRUE]
        /\ (~s.isSyncing /\ s.isOnline) =>
               badge = [label |-> "ONLINE", colour |-> "green", pulsing |-> FALSE]
        /\ (~s.isSyncing /\ ~s.isOnline) =>
               badge = [label |-> "OFFLINE", colour |-> "destructive", pulsing |-> FALSE]
        /\ StateOfText(getSyncStatusText(s)) = StateOfLabel(badge.label)

(* C18: for every syncStatus value the badge shows one of three states:
   syncing (yellow, pulsing) when isSyncing, otherwise online (green) when
   isOnline, otherwise offline (red); getSyncStatusText reports the same
   state as the badge for the same status. *)
C18_IndicatorStates ==
    /\ IndicatorAgrees(syncStatus)
    /\ \A s \in StatusValues : IndicatorAgrees(s)

C18_Witness ==
    /\ AfterPass
    /\ syncStatus.isSyncing
    /\ SyncStatusIndicator(syncStatus).label = "SYNCING"
    /\ SyncStatusIndicator(syncStatus).pulsing
    /\ getSyncStatusText(syncStatus) = "SYNCING DATA..."

\* the latest step was a query of the tables
AfterQuery == last \in {"getAllNotes", "searchNotes", "getAllImages"}

(* C19: per-user data: what getAllNotes, searchNotes and getAllImages return
   holds only records whose owner is the current user, for every current
   user and every content of the local tables. *)
C19_OnlyOwnRecords ==
    (AfterQuery /\ ~getCurrentUserRaises(cloud)) =>
        \A i \in 1..Len(returned) : returned[i].owner = ownerOf(cloud)

\* the preview shows an "Error: ..." text
ShowsError == aiPreview # <<>> /\ Head(aiPreview) = "Error: "

\* a run of generateFromPrompt has ended in this step
RunFailed ==
    /\ ShowsError'
    /\ ~aiBusy'
    /\ genPc' = "idle"

(* C20: generateFromPrompt never throws; aiBusy is true exactly while a run
   is suspended at one of its awaits and false once it has ended; a rejected
   callAI, a throwing stream and a rejected addNote each end the run with an
   "Error: ..." preview; a final response that cannot be parsed, as it is or
   between its first "{" and last "}", ends the run with an "Error: ..."
   preview and no note added; notes are added only in a run whose response
   parsed; a blank prompt changes no state, any other prompt starts a run
   with an empty preview. *)
C20_GenerateHandlesAllOutcomes ==
    /\ [](~genThrown)
    /\ [](aiBusy <=> genPc # "idle")
    /\ [][last' \in {"callAI.rejected", "stream.rejected", "addItem.rejected"} =>
              RunFailed]_vars
    /\ [][(last' = "streamEnd" /\ ~JSONParses(finalResponse)
              /\ ~JSONParses(recovered(finalResponse))) =>
              (RunFailed /\ UNCHANGED <<notes, publicNotes>>)]_vars
    /\ [][(last' = "streamEnd" /\ JSONParses(recovered(finalResponse))
              /\ Len(recovered(finalResponse)) > 2) =>
              (genPc' = "adding" /\ aiBusy' /\ ~ShowsError')]_vars
    /\ [](genPc = "adding" =>
              (JSONParses(finalResponse) \/ JSONParses(recovered(finalResponse))))
    /\ [][<<notes, publicNotes>>' # <<notes, publicNotes>> => genPc = "adding"]_vars
    /\ [][(last' = "generate" /\ \A i \in 1..Len(prompt) : prompt[i] = " ") =>
              UNCHANGED <<genVars, dataVars, panelVars, formVars, editorVars, cloud>>]_vars
    /\ [][(last' = "generate" /\ \E i \in 1..Len(prompt) : prompt[i] # " ") =>
              (aiBusy' /\ aiPreview' = <<>> /\ genPc' = "calling")]_vars

C20_Witness ==
    /\ last = "streamEnd"
    /\ aiPreview = <<"Error: ", "Unexpected token">>
    /\ ~aiBusy
    /\ genPc = "idle"
    /\ notes = {} /\ publicNotes = {}

\* the user has no id or the id "unauthorized"
Unauthenticated == cloud.currentUserId \in {NoValue, "", "unauthorized"}

(* C21: getAllNotes never throws; for an unauthenticated user it attempts
   one cloud sync before reading and for an authenticated user none; whether
   or not that sync fails it returns the stored notes of type 'note', newest
   first; it returns the empty list in their place only when the local read
   failed. *)
C21_OfflineRead ==
    last = "getAllNotes" =>
        /\ ~queryLog.threw
        /\ queryLog.syncCalls = (IF Unauthenticated THEN 1 ELSE 0)
        /\ returned = (IF queryLog.readFailed THEN <<>>
                       ELSE newestFirst(whereType(notes, "note")))

\* the record created latest in a table
newestOf(table) == CHOOSE r \in table : \A q \in table : q.createdAt <= r.createdAt

(* C25: after addNote settles the note is in the public realm or in the
   local table, never in both, and in one of them when addNote resolved. *)
C25_StoredExactlyOnce ==
    last \in {"addNote.resolved", "addNote.rejected"} =>
        /\ notes \cap publicNotes = {}
        /\ last = "addNote.resolved" => notes \cup publicNotes # {}

\* the owner the records of an authenticated or an unauthenticated caller
\* are to carry
ExpectedOwner == IF isAuthenticated(cloud) THEN cloud.currentUserId ELSE "anonymous"

(* C26: the record created by addNote or addImage carries the owner
   "anonymous" exactly when the caller is not authenticated in the sense of
   isAuthenticated (no user id, or the id "unauthorized"), otherwise the
   current user id. *)
C26_OwnerOfNewRecords ==
    /\ last = "addNote.resolved" => newestOf(notes \cup publicNotes).owner = ExpectedOwner
    /\ last = "addImage.resolved" => newestOf(images).owner = ExpectedOwner

\* the labels of the handler steps and of the continuation steps
HandlerSteps == {"handleSignIn", "handleSignOut", "handleForceSync"}

SettleSteps == {c \o "." \o o : c \in Commands, o \in {"resolved", "rejected"}}

(* C22: a handler invoked while the busy flag is set still issues its
   external call (handleSignIn unless the trimmed e-mail is empty); when two
   calls overlap, the continuation of the first to settle clears the busy
   flag although the other call is still in flight; once no call is in
   flight the message is that of the command that settled last. *)
C22_BusyIsNotALock ==
    /\ [][(isLoading /\ last' \in {"handleSignOut", "handleForceSync"}) =>
              InFlight' = InFlight + 1]_vars
    /\ [][(isLoading /\ last' = "handleSignIn" /\ \E i \in 1..Len(email) : email[i] # " ") =>
              InFlight' = InFlight + 1]_vars
    /\ [][(InFlight = 2 /\ last' \in SettleSteps) =>
              (InFlight' = 1 /\ ~isLoading')]_vars
    /\ [][\A c \in Commands :
              /\ (last' = c \o ".resolved" /\ InFlight' = 0) => message' = successMessage(c)
              /\ (last' = c \o ".rejected" /\ InFlight' = 0) =>
                     message' \in {failureMessage(c, d) : d \in ErrorDescriptions}]_vars

C22_Witness ==
    /\ last = "forceSync.resolved"
    /\ inflight["signOut"] = 1
    /\ InFlight = 1
    /\ ~isLoading
    /\ message = "Sync triggered"

\* syncStatus.isLoggedIn, an absent flag counting as false
StatusLoggedIn ==
    IF "isLoggedIn" \in DOMAIN syncStatus THEN syncStatus.isLoggedIn ELSE FALSE

(* C23: in every state of the view the stored pair is consistent:
   syncStatus.isLoggedIn, false when absent, equals currentUser.isLoggedIn;
   syncStatus.isSyncing = (syncStatus.phase = "syncing"); syncStatus.isOnline
   = (phase = "online" or (currentUser.isLoggedIn and phase = "unknown")).
   This covers the state before the first pass and the error fallback. *)
C23_StoredPairConsistent ==
    /\ StatusLoggedIn = currentUser.isLoggedIn
    /\ syncStatus.isSyncing = (syncStatus.phase = "syncing")
    /\ syncStatus.isOnline =
           (syncStatus.phase = "online"
            \/ (currentUser.isLoggedIn /\ syncStatus.phase = "unknown"))

C23_Witness ==
    /\ AfterPass /\ PassRaised
    /\ cloud.currentUserId = "u1"
    /\ cloud.syncState.phase = "online"
    /\ currentUser = ErrorUser
    /\ syncStatus = ErrorSyncStatus
    /\ "isLoggedIn" \notin DOMAIN syncStatus

\* syncStatus.lastSync, undefined when the stored object has no such field
StatusLastSync ==
    IF "lastSync" \in DOMAIN syncStatus THEN syncStatus.lastSync ELSE NoValue

\* getSyncStatus() over the client as the pass read it returns what the pass
\* stored
HelperAgreesWithPass ==
    /\ getSyncStatus(cloud).isOnline = syncStatus.isOnline
    /\ getSyncStatus(cloud).isSyncing = syncStatus.isSyncing
    /\ getSyncStatus(cloud).lastSync = StatusLastSync

(* C24, as stated: whenever the live sync state object is absent and the
   user is not logged in, getSyncStatus() returns the isOnline, isSyncing and
   lastSync a pass over the same client state stores.  Taken where
   getSyncStatus() returns, that is where its read of the persisted state
   does not raise. *)
C24_Original ==
    (AfterPass /\ ~cloud.syncState.present /\ ~currentUser.isLoggedIn
        /\ ~Raises(cloud, "persistedSyncState")) =>
        HelperAgreesWithPass

(* C24, amended: whenever the live sync state object is absent, the user is
   not logged in and no read raised during the pass, getSyncStatus() returns
   the isOnline, isSyncing and lastSync the pass stored; a pass in which a
   read raised stores the error fallback whatever the persisted state. *)
C24_HelperAgreesWithPass ==
    /\ (AfterPass /\ ~PassRaised /\ ~cloud.syncState.present
           /\ ~currentUser.isLoggedIn) =>
           HelperAgreesWithPass
    /\ (AfterPass /\ PassRaised) => syncStatus = ErrorSyncStatus

C24_Witness ==
    /\ AfterPass /\ ~PassRaised
    /\ ~cloud.syncState.present
    /\ cloud.currentUserId = "unauthorized"
    /\ cloud.persistedSyncState.phase = "online"
    /\ ~currentUser.isLoggedIn
    /\ syncStatus.isOnline
    /\ getSyncStatus(cloud).isOnline
    /\ syncStatus.lastSync = "t2"

-----------------------------------------------------------------------------
(* C28: saveNewNote with a title that is empty after trimming calls addNote
   not at all and leaves the form as it is; when the awaited addNote
   resolved, the form is back at its defaults and the tag input is empty;
   when it rejected, the form's contents and the tag input are as they were
   and no exception leaves saveNewNote. *)
C28_SaveNewNote ==
    /\ [][/\ Len(saves') > Len(saves) => trim(newNote.title) # <<>>
          /\ last' = "saveNewNote.noop" =>
                 /\ trim(newNote.title) = <<>>
                 /\ UNCHANGED <<newNote, tagInput, saves, notes, publicNotes>>
          /\ last' = "saveNewNote.resolved" =>
                 /\ newNote' = [title |-> <<>>, details |-> <<>>, tags |-> <<>>,
                                priority |-> "medium", files |-> {}]
                 /\ tagInput' = <<>>
          /\ last' = "saveNewNote.rejected" => UNCHANGED <<newNote, tagInput>>]_vars
    /\ [](~saveThrown)

\* an addNote that rejected has left a filled-in form and tag input alone
C28_Witness ==
    /\ last = "saveNewNote.rejected"
    /\ newNote.tags # <<>>
    /\ newNote.priority = "high"
    /\ tagInput # <<>>

-----------------------------------------------------------------------------
\* the values of a list
elements(list) == {list[i] : i \in 1..Len(list)}

\* a tag list without a duplicate, without an empty or blank tag, every tag
\* trimmed
cleanTags(list) ==
    /\ \A i, j \in 1..Len(list) : list[i] = list[j] => i = j
    /\ \A i \in 1..Len(list) :
           /\ list[i] # <<>>
           /\ \E k \in 1..Len(list[i]) : list[i][k] # " "
           /\ list[i][1] # " "
           /\ list[i][Len(list[i])] # " "

\* the first place of a value in a list
placeOf(list, x) == CHOOSE i \in 1..Len(list) : list[i] = x /\ \A k \in 1..(i - 1) : list[k] # x

\* after is before without the tag t, the other tags in the order they had
removedFrom(before, after, t) ==
    /\ t \in elements(before)
    /\ elements(after) = elements(before) \ {t}
    /\ \A i, j \in 1..Len(after) :
           i < j => placeOf(before, after[i]) < placeOf(before, after[j])

(* C27: the tag list of the new-note form and the tag list that TagEditor
   shows never hold a duplicate, an empty or blank tag, or a tag with a
   blank at either end; adding a tag that the list already holds leaves the
   list as it is; removing a tag leaves the list without it and the other
   tags in the order they had. *)
C27_TagLists ==
    /\ [](/\ cleanTags(newNote.tags)
          /\ isNote(doc) => cleanTags(doc.tags))
    /\ [][/\ (last' = "addTag" /\ trim(tagInput) \in elements(newNote.tags))
                 => newNote'.tags = newNote.tags
          /\ (last' = "tagEditor.add" /\ trim(val) \in elements(doc.tags))
                 => doc'.tags = doc.tags
          /\ last' = "removeTag"
                 => \E t \in elements(newNote.tags) :
                        removedFrom(newNote.tags, newNote'.tags, t)
          /\ last' = "tagEditor.remove"
                 => \E t \in elements(doc.tags) :
                        removedFrom(doc.tags, doc'.tags, t)]_vars

\* a tag has been removed from a form that held three, and a card whose
\* tags went through TagEditor is shown
C27_Witness ==
    /\ last = "removeTag"
    /\ Len(newNote.tags) = 2
    /\ isNote(doc)
    /\ Len(doc.tags) = 3

-----------------------------------------------------------------------------
(* C29: whenever the editor can issue an update or a delete, the doc it
   displays is the note whose id is the current noteId; while the load of
   the selected note is awaited the editor shows the loading state; and
   once no getNote is awaited, a displayed doc is the selected note. *)
C29_ActsOnDisplayedNote ==
    /\ showsDoc => idOf(doc) = selectedId
    /\ (selectedId # NoSelection /\ selectedId \in elements(loads)) => loading
    /\ (selectedId # NoSelection /\ loads = <<>> /\ isNote(doc)) => idOf(doc) = selectedId

-----------------------------------------------------------------------------
(* C30: once every call of the editor has settled, each field of the doc
   displayed for the loaded note equals the field stored under noteId,
   whatever updates, drops and removals were made and however their
   updateNote calls settled. *)
C30_DocEqualsStored ==
    (showsDoc /\ idOf(doc) = selectedId /\ pending = <<>> /\ loads = <<>>)
        => LET stored == get(notes, selectedId)
           IN  \A k \in DOMAIN doc : k \in DOMAIN stored /\ doc[k] = stored[k]

=============================================================================
